---- MODULE Spec2Model ----
(***************************************************************************)
(* Model of src/tools/get-albums.py: the rate-limited, retrying Spotify    *)
(* API client (SpotifyClient), the genre mapper (ChinookGenreMapper), the  *)
(* batched SQL emitter (SQLGenerator), the album fetcher and main(); and   *)
(* of src/tools/shift-dates.py.                                            *)
(*                                                                         *)
(* Time is counted in ticks of 1/TicksPerSec second.  One step of the      *)
(* client is one iteration of the retry loop of make_request: the          *)
(* _rate_limit call, the GET, and the whole handling of its outcome.       *)
(***************************************************************************)
EXTENDS Integers, Sequences, FiniteSets, TLC

(* ------------------------------ bounds --------------------------------- *)
TicksPerSec == 2
MaxTime == 5
MaxRetryAfter == 2
MaxAlbums == 2
MaxTracks == 2
MaxRows == 3
MaxSeed == 1
MaxWords == 2
MaxItems == 2
MaxTokens == 3

(* -------------------------- program constants -------------------------- *)
max_retries == 3
RateLimitCount == 10
SpotifyMaxLimit == 50

Epoch == TicksPerSec

Urls == {"https://api.spotify.com/v1/search", "https://api.spotify.com/v1/albums/x"}
Tokens == {"tokA", "tokB"}
Bodies == {"json_a", "json_b"}
NoHeader == -1
BadHeader == -2

VARIABLES
    token, headers, request_count, last_request_time,
    now,
    pc, url, retry_count, result, trace,
    get_times

VARIABLES
    albums, max_artist_id, max_album_id, max_track_id, max_rows_per_batch,
    gen_pc, gen

clientVars == <<token, headers, request_count, last_request_time, now,
                pc, url, retry_count, result, trace, get_times>>

genVars == <<albums, max_artist_id, max_album_id, max_track_id, max_rows_per_batch,
             gen_pc, gen>>

(* ChinookGenreMapper as _process_album_data and generate_sql use it *)
VARIABLES artist_genres, genre, genre_id, map_pc

mapVars == <<artist_genres, genre, genre_id, map_pc>>

(* main() and the SpotifyAlbumFetcher it drives *)
VARIABLES
    args, main_pc, log, year, n_items, idx, year_albums, all_albums,
    exit_status, output

mainVars == <<args, main_pc, log, year, n_items, idx, year_albums, all_albums,
              exit_status, output>>

(* shift-dates.py: the bytes of the two files and the platform's os.linesep *)
VARIABLES infile, outfile, linesep, shift_pc

shiftVars == <<infile, outfile, linesep, shift_pc>>

toolVars == <<mapVars, mainVars, shiftVars>>

vars == <<clientVars, genVars, toolVars>>

(* --------------------------- SpotifyClient ----------------------------- *)

CreateHeaders(tok) ==
    [Authorization |-> <<"Bearer", tok>>, ContentType |-> "application/json"]

(* Outcomes of the POST of _get_token: a token, or an exception. *)
NoToken == ""
TokenOutcomes ==
    {[ok |-> TRUE, token |-> t] : t \in Tokens} \cup {[ok |-> FALSE, token |-> NoToken]}

(* _get_token is called in the 401 branch only *)
TokenOutcomesFor(resp) ==
    IF resp.kind = "http" /\ resp.status = 401 THEN TokenOutcomes
    ELSE {[ok |-> FALSE, token |-> NoToken]}

(* Outcomes of one requests.get followed by raise_for_status and json():   *)
(* an HTTP status, or any exception that is not an HTTPError ("network").  *)
(* The Retry-After header of a 429 is absent (NoHeader), a number of       *)
(* seconds, or a text that int() or time.sleep() rejects (BadHeader).      *)
Responses ==
    {[kind |-> "http", status |-> 200, retry_after |-> NoHeader, json |-> b] : b \in Bodies}
    \cup {[kind |-> "http", status |-> 429, retry_after |-> r, json |-> "none"] :
             r \in {NoHeader, BadHeader} \cup (0..MaxRetryAfter)}
    \cup {[kind |-> "http", status |-> s, retry_after |-> NoHeader, json |-> "none"] :
             s \in {401, 500}}
    \cup {[kind |-> "network", status |-> 0, retry_after |-> NoHeader, json |-> "none"]}

TerminalError_Mut(u) == [type |-> "Exception", url |-> "", retries |-> max_retries]

(* Exception(f"Failed to get response from {url} after {max_retries} retries") *)
TerminalError(u) == [type |-> "Exception", url |-> u, retries |-> max_retries]
HTTPError(s) == [type |-> "HTTPError", url |-> "", retries |-> s]
NetworkError == [type |-> "RequestException", url |-> "", retries |-> 0]
ValueError == [type |-> "ValueError", url |-> "", retries |-> 0]
TokenError == [type |-> "TokenError", url |-> "", retries |-> 0]
NoError == [type |-> "none", url |-> "", retries |-> 0]

Returned(j) == [kind |-> "return", json |-> j, error |-> NoError]
Raised(e) == [kind |-> "raise", json |-> "none", error |-> e]
NoResult == [kind |-> "none", json |-> "none", error |-> NoError]

(* _rate_limit: the counter, the clock and the timestamp after the call. *)
RateLimit(count, last, t) ==
    LET count1 == count + 1
        time_since_last == t - last
        sleeps == count1 > RateLimitCount /\ time_since_last < TicksPerSec
        sleep_time == IF sleeps THEN TicksPerSec - time_since_last ELSE 0
        count2 == IF sleeps THEN 0 ELSE count1
        count3 == IF time_since_last >= TicksPerSec THEN 0 ELSE count2
    IN  [request_count |-> count3,
         now |-> t + sleep_time,
         last_request_time |-> t + sleep_time,
         slept |-> sleep_time]

Seconds(n) == n * TicksPerSec

RetryAfterSeconds_Mut(resp) == 1

(* int(e.response.headers.get('Retry-After', 1)) *)
RetryAfterSeconds(resp) ==
    IF resp.retry_after = NoHeader THEN 1 ELSE resp.retry_after

(* wait_time = 2 ** retry_count *)
BackoffSeconds_Mut(rc) == 2 ^ (rc - 1)

BackoffSeconds(rc) == 2 ^ rc

(* The events of one make_request call, in order; secs is the length of a *)
(* retry wait in seconds and, for _rate_limit, of its sleep in ticks.     *)
Event(o, s, st, hdr, cur, ra, j) ==
    [op |-> o, secs |-> s, status |-> st, sent |-> hdr, current |-> cur,
     retry_after |-> ra, json |-> j]
NoHeaders == CreateHeaders(NoToken)
RateLimitEvent(rl) ==
    Event("rate_limit", rl.slept, 0, NoHeaders, NoHeaders, NoHeader, "none")
GetEvent(resp, hdr, tok) ==
    Event("get", 0, resp.status, hdr, CreateHeaders(tok), resp.retry_after, resp.json)
SleepEvent(why, s) ==
    Event(why, s, 0, NoHeaders, NoHeaders, NoHeader, "none")
AuthEvent(o) ==
    Event("get_token", 0, IF o.ok THEN 200 ELSE 0, NoHeaders, CreateHeaders(o.token),
          NoHeader, "none")

ClientInit ==
    /\ token \in Tokens
    /\ headers = CreateHeaders(token)
    /\ request_count = 0
    /\ last_request_time = 0
    /\ now = Epoch
    /\ pc = "idle"
    /\ url = ""
    /\ retry_count = 0
    /\ result = NoResult
    /\ trace = <<>>
    /\ get_times = <<>>

(* A caller enters make_request(u). *)
Call(u) ==
    /\ pc \in {"idle", "returned", "raised"}
    /\ now <= MaxTime
    /\ pc' = "loop"
    /\ url' = u
    /\ retry_count' = 0
    /\ result' = NoResult
    /\ trace' = <<>>
    /\ UNCHANGED <<token, headers, request_count, last_request_time, now, get_times>>
    /\ UNCHANGED <<genVars, toolVars>>

(* The GET timestamps of the trailing second, the newest GET included. *)
Window(times, t) == SelectSeq(Append(times, t), LAMBDA x : x > t - TicksPerSec)

Continue_Mut(rc, tr) ==
    /\ retry_count' = rc
    /\ trace' = tr
    /\ IF rc + 1 < max_retries
       THEN pc' = "loop" /\ result' = result
       ELSE pc' = "raised" /\ result' = Raised([type |-> "Exception", url |-> url,
                                                retries |-> max_retries])

(* `continue` with retry_count = rc: the next iteration or, when the loop *)
(* condition fails, the raise that follows the loop.                      *)
Continue(rc, tr) ==
    /\ retry_count' = rc
    /\ trace' = tr
    /\ IF rc < max_retries
       THEN pc' = "loop" /\ result' = result
       ELSE pc' = "raised" /\ result' = Raised(TerminalError(url))

(* return response.json() *)
HandleOk(resp, t, tr) ==
    /\ pc' = "returned"
    /\ result' = Returned(resp.json)
    /\ trace' = tr
    /\ now' = t
    /\ UNCHANGED <<token, headers, retry_count>>

(* status 429: sleep Retry-After, count the retry, continue *)
Handle429(resp, t, tr) ==
    IF resp.retry_after = BadHeader
    THEN /\ pc' = "raised"
         /\ result' = Raised(ValueError)
         /\ trace' = tr
         /\ now' = t
         /\ UNCHANGED <<token, headers, retry_count>>
    ELSE /\ now' = t + Seconds(RetryAfterSeconds(resp))
         /\ Continue(retry_count + 1,
                     Append(tr, SleepEvent("retry_after", RetryAfterSeconds(resp))))
         /\ UNCHANGED <<token, headers>>

Handle401_Mut(auth, t, tr) ==
    /\ now' = t
    /\ IF auth.ok
       THEN /\ token' = auth.token
            /\ headers' = headers
            /\ Continue(retry_count + 1, Append(tr, AuthEvent(auth)))
       ELSE /\ pc' = "raised"
            /\ result' = Raised(TokenError)
            /\ trace' = Append(tr, AuthEvent(auth))
            /\ UNCHANGED <<token, headers, retry_count>>

(* status 401: _get_token (which may raise), _create_headers, continue *)
Handle401(auth, t, tr) ==
    /\ now' = t
    /\ IF auth.ok
       THEN /\ token' = auth.token
            /\ headers' = CreateHeaders(auth.token)
            /\ Continue(retry_count + 1, Append(tr, AuthEvent(auth)))
       ELSE /\ pc' = "raised"
            /\ result' = Raised(TokenError)
            /\ trace' = Append(tr, AuthEvent(auth))
            /\ UNCHANGED <<token, headers, retry_count>>

(* any other HTTP error status: log and re-raise *)
HandleHTTPError(resp, t, tr) ==
    /\ pc' = "raised"
    /\ result' = Raised(HTTPError(resp.status))
    /\ trace' = tr
    /\ now' = t
    /\ UNCHANGED <<token, headers, retry_count>>

(* except Exception: back off and retry, or re-raise on the last attempt *)
HandleException(t, tr) ==
    /\ retry_count' = retry_count + 1
    /\ UNCHANGED <<token, headers>>
    /\ IF retry_count + 1 < max_retries
       THEN /\ now' = t + Seconds(BackoffSeconds(retry_count + 1))
            /\ trace' = Append(tr, SleepEvent("backoff", BackoffSeconds(retry_count + 1)))
            /\ pc' = "loop"
            /\ result' = result
       ELSE /\ now' = t
            /\ trace' = tr
            /\ pc' = "raised"
            /\ result' = Raised(NetworkError)

(* One iteration of the while loop of make_request. *)
Attempt(resp, auth) ==
    /\ pc = "loop"
    /\ retry_count < max_retries
    /\ LET rl == RateLimit(request_count, last_request_time, now)
           tr == trace \o <<RateLimitEvent(rl), GetEvent(resp, headers, token)>>
       IN  /\ request_count' = rl.request_count
           /\ last_request_time' = rl.last_request_time
           /\ get_times' = Window(get_times, rl.now)
           /\ url' = url
           /\ UNCHANGED <<genVars, toolVars>>
           /\ CASE resp.kind = "http" /\ resp.status = 200 -> HandleOk(resp, rl.now, tr)
                [] resp.kind = "http" /\ resp.status = 429 -> Handle429(resp, rl.now, tr)
                [] resp.kind = "http" /\ resp.status = 401 -> Handle401(auth, rl.now, tr)
                [] resp.kind = "http" /\ resp.status \notin {200, 429, 401} ->
                       HandleHTTPError(resp, rl.now, tr)
                [] resp.kind = "network" -> HandleException(rl.now, tr)

(* ---------------------------- SQLGenerator ----------------------------- *)
(* A string is a sequence of characters; a text is a sequence of lines,    *)
(* the lines that splitting the Python string at "\n" gives.               *)

None == <<"<None>">>
Quote == "'"

EscChar_Mut(c) == <<c>>

(* one character of s.replace("'", "''") *)
EscChar(c) == IF c = Quote THEN <<Quote, Quote>> ELSE <<c>>

RECURSIVE ReplaceQuotes(_)
ReplaceQuotes(s) ==
    IF s = <<>> THEN <<>> ELSE EscChar(Head(s)) \o ReplaceQuotes(Tail(s))

escape_sql_string(s) == IF s = None THEN <<>> ELSE ReplaceQuotes(s)

Min(a, b) == IF a < b THEN a ELSE b

ChunkEnd_Mut(i, chunk_size, n) == Min(i + chunk_size - 1, n)

(* the last element, counted from 1, of the slice input_list[i:i + chunk_size] *)
ChunkEnd(i, chunk_size, n) == Min(i + chunk_size, n)

(* chunk_list: the slices for i in range(0, len(input_list), chunk_size) *)
RECURSIVE ChunksFrom(_, _, _)
ChunksFrom(input_list, chunk_size, i) ==
    IF i >= Len(input_list) THEN <<>>
    ELSE <<SubSeq(input_list, i + 1, ChunkEnd(i, chunk_size, Len(input_list)))>>
         \o ChunksFrom(input_list, chunk_size, i + chunk_size)

chunk_list(input_list, chunk_size) == ChunksFrom(input_list, chunk_size, 0)

(* genre_id_map *)
genre_id_map ==
    [g \in {"Rock", "Jazz", "Metal", "Alternative & Punk", "Rock And Roll", "Blues",
            "Latin", "Reggae", "Pop", "Soundtrack", "Bossa Nova", "Easy Listening",
            "Heavy Metal", "R&B/Soul", "Electronica/Dance", "World", "Hip Hop/Rap",
            "Science Fiction", "TV Shows", "Sci Fi & Fantasy", "Drama", "Comedy",
            "Alternative", "Classical", "Opera"} |->
        CASE g = "Rock" -> 1 [] g = "Jazz" -> 2 [] g = "Metal" -> 3
          [] g = "Alternative & Punk" -> 4 [] g = "Rock And Roll" -> 5
          [] g = "Blues" -> 6 [] g = "Latin" -> 7 [] g = "Reggae" -> 8
          [] g = "Pop" -> 9 [] g = "Soundtrack" -> 10 [] g = "Bossa Nova" -> 11
          [] g = "Easy Listening" -> 12 [] g = "Heavy Metal" -> 13
          [] g = "R&B/Soul" -> 14 [] g = "Electronica/Dance" -> 15
          [] g = "World" -> 16 [] g = "Hip Hop/Rap" -> 17
          [] g = "Science Fiction" -> 18 [] g = "TV Shows" -> 19
          [] g = "Sci Fi & Fantasy" -> 20 [] g = "Drama" -> 21
          [] g = "Comedy" -> 22 [] g = "Alternative" -> 23
          [] g = "Classical" -> 24 [] g = "Opera" -> 25]

get_genre_id(genre_name) ==
    IF genre_name \in DOMAIN genre_id_map THEN genre_id_map[genre_name] ELSE 1

(* Lines of the emitted text. *)
Line(k, t, i, n, v, e) ==
    [kind |-> k, table |-> t, i |-> i, n |-> n, vals |-> v, term |-> e]
Blank == Line("blank", "", 0, 0, <<>>, "")
HeaderLine(j) == Line("header", "", j, 5, <<>>, "")
CommentLine(t, i, n) == Line("comment", t, i, n, <<>>, "")
InsertLine(t) == Line("insert", t, 0, 0, <<>>, "")
RowLine(t, v, e) == Line("row", t, 0, 0, v, e)

RECURSIVE Flatten(_)
Flatten(parts) == IF parts = <<>> THEN <<>> ELSE Head(parts) \o Flatten(Tail(parts))

(* "\n".join(parts): the lines of the parts in order; "" when there is none *)
JoinLines(parts) == IF parts = <<>> THEN <<Blank>> ELSE Flatten(parts)

(* _generate_header *)
generate_header == JoinLines(<<[j \in 1..5 |-> HeaderLine(j)], <<Blank>>>>)

(* ",\n".join(values) + ";" *)
ValueLines(t, batch) ==
    [r \in 1..Len(batch) |-> RowLine(t, batch[r], IF r = Len(batch) THEN ";" ELSE ",")]

(* the four sql_parts appended for the batch of index i (from 0) *)
BatchParts(t, batches, i) ==
    <<<<CommentLine(t, i + 1, Len(batches))>>, <<InsertLine(t)>>,
      ValueLines(t, batches[i + 1]), <<Blank>>>>

RECURSIVE BatchesParts(_, _, _)
BatchesParts(t, batches, i) ==
    IF i >= Len(batches) THEN <<>>
    ELSE BatchParts(t, batches, i) \o BatchesParts(t, batches, i + 1)

(* _generate_artist_sql, _generate_album_sql, _generate_track_sql *)
generate_table_sql(t, rows, max_rows) ==
    JoinLines(BatchesParts(t, chunk_list(rows, max_rows), 0))
generate_artist_sql(artists, max_rows) == generate_table_sql("Artist", artists, max_rows)
generate_album_sql(albs, max_rows) == generate_table_sql("Album", albs, max_rows)
generate_track_sql(tracks, max_rows) == generate_table_sql("Track", tracks, max_rows)

NextId_Mut(id) == id + 2

(* next_artist_id += 1, next_album_id += 1, next_track_id += 1 *)
NextId(id) == id + 1

(* Python truth value of an int *)
Truthy(x) == x # 0

EmptyMap == [x \in {} |-> 0]

Known_Mut(artist_ids, artist_name) == FALSE

(* artist_name in artist_ids *)
Known(artist_ids, artist_name) == artist_name \in DOMAIN artist_ids

(* first loop of generate_sql: artist_ids and new_artists *)
RECURSIVE CollectArtists(_, _, _, _, _)
CollectArtists(albs, i, artist_ids, artists, next_artist_id) ==
    IF i > Len(albs)
    THEN [artist_ids |-> artist_ids, new_artists |-> artists]
    ELSE LET artist_name == escape_sql_string(albs[i].artist_name)
         IN  IF Known(artist_ids, artist_name)
             THEN CollectArtists(albs, i + 1, artist_ids, artists, next_artist_id)
             ELSE CollectArtists(albs, i + 1,
                                 artist_ids @@ (artist_name :> next_artist_id),
                                 Append(artists, <<next_artist_id, artist_name>>),
                                 NextId(next_artist_id))

LookupArtist_Mut(artist_ids, artist_name) == artist_ids[artist_name] + 1

(* artist_ids.get(artist_name) *)
LookupArtist(artist_ids, artist_name) == artist_ids[artist_name]

(* second loop: new_albums and album_map, in insertion order; src is the  *)
(* index of the album record an entry was made from                       *)
RECURSIVE CollectAlbums(_, _, _, _, _, _)
CollectAlbums(albs, i, artist_ids, rows, album_map, next_album_id) ==
    IF i > Len(albs)
    THEN [new_albums |-> rows, album_map |-> album_map]
    ELSE LET artist_name == escape_sql_string(albs[i].artist_name)
             album_name == escape_sql_string(albs[i].album_name)
             artist_id == LookupArtist(artist_ids, artist_name)
         IN  IF Truthy(artist_id)
             THEN CollectAlbums(albs, i + 1, artist_ids,
                      Append(rows, <<next_album_id, album_name, artist_id,
                                     albs[i].release_year>>),
                      Append(album_map,
                             [album_id |-> next_album_id, album_name |-> album_name,
                              artist_id |-> artist_id, genre |-> albs[i].genre,
                              tracks |-> albs[i].tracks, src |-> i]),
                      NextId(next_album_id))
             ELSE CollectAlbums(albs, i + 1, artist_ids, rows, album_map, next_album_id)

media_types == <<1, 2, 4, 5>>

(* The draws of the pseudo-random generator for the n-th track row, as a  *)
(* function of the generator's seed: media type, bytes per millisecond     *)
(* within 35..45, price in cents (99 or 129).                              *)
RandomDraw(seed, n) ==
    [media_type_id |-> media_types[((seed + n) % 4) + 1],
     factor |-> 35 + ((3 * (seed + n)) % 11),
     unit_price |-> IF (seed + n) % 3 = 0 THEN 129 ELSE 99]

(* inner loop over the tracks of one album_map entry *)
RECURSIVE CollectAlbumTracks(_, _, _, _, _)
CollectAlbumTracks(entry, j, rows, next_track_id, seed) ==
    IF j > Len(entry.tracks)
    THEN [rows |-> rows, next_track_id |-> next_track_id]
    ELSE LET track_data == entry.tracks[j]
             rnd == RandomDraw(seed, Len(rows) + 1)
         IN  CollectAlbumTracks(entry, j + 1,
                 Append(rows, <<next_track_id, escape_sql_string(track_data.name),
                                entry.album_id, rnd.media_type_id,
                                get_genre_id(entry.genre),
                                escape_sql_string(track_data.composer),
                                track_data.duration_ms,
                                track_data.duration_ms * rnd.factor,
                                rnd.unit_price>>),
                 NextId(next_track_id), seed)

(* third loop: new_tracks, over album_map.items() *)
RECURSIVE CollectTracks(_, _, _, _, _)
CollectTracks(album_map, a, rows, next_track_id, seed) ==
    IF a > Len(album_map) THEN rows
    ELSE LET r == CollectAlbumTracks(album_map[a], 1, rows, next_track_id, seed)
         IN  CollectTracks(album_map, a + 1, r.rows, r.next_track_id, seed)

(* generate_sql: the text returned, with the row lists it was built from *)
generate_sql(albs, artist0, album0, track0, max_rows, seed) ==
    LET a == CollectArtists(albs, 1, EmptyMap, <<>>, artist0 + 1)
        b == CollectAlbums(albs, 1, a.artist_ids, <<>>, <<>>, album0 + 1)
        new_tracks == CollectTracks(b.album_map, 1, <<>>, track0 + 1, seed)
        sql_parts ==
            <<generate_header>>
            \o (IF a.new_artists # <<>>
                THEN <<generate_artist_sql(a.new_artists, max_rows)>> ELSE <<>>)
            \o (IF b.new_albums # <<>>
                THEN <<generate_album_sql(b.new_albums, max_rows)>> ELSE <<>>)
            \o (IF new_tracks # <<>>
                THEN <<generate_track_sql(new_tracks, max_rows)>> ELSE <<>>)
    IN  [text |-> JoinLines(sql_parts),
         new_artists |-> a.new_artists,
         new_albums |-> b.new_albums,
         album_map |-> b.album_map,
         new_tracks |-> new_tracks]

NoOutput == [text |-> <<>>, new_artists |-> <<>>, new_albums |-> <<>>,
             album_map |-> <<>>, new_tracks |-> <<>>]

(* Inputs of generate_sql. *)
ArtistNames == {<<"A">>, <<"O", Quote, "B">>}
AlbumNames == {<<"T", Quote>>}
Years == {2020}
GenreOf(artist_name) == IF artist_name = <<"A">> THEN "Jazz" ELSE "Unknown"
PlainTrack == [name |-> <<"x">>, duration_ms |-> 1000, composer |-> <<"A">>]
QuotedTrack ==
    [name |-> <<Quote, Quote>>, duration_ms |-> 0, composer |-> <<"O", Quote, "B">>]

(* track lists of 0..MaxTracks tracks, alternating the two tracks *)
TrackLists ==
    {[j \in 1..m |-> IF (j + v) % 2 = 0 THEN PlainTrack ELSE QuotedTrack] :
        m \in 0..MaxTracks, v \in 0..1}

SeqsUpTo(S, n) == UNION {[1..m -> S] : m \in 0..n}

AlbumRecords ==
    {[artist_name |-> an, album_name |-> t, release_year |-> y, genre |-> GenreOf(an),
      tracks |-> ts] :
        an \in ArtistNames, t \in AlbumNames, y \in Years, ts \in TrackLists}

(* the maxima typed at the prompts of get_max_ids: artist, album, track *)
IdStarts == {<<-1, -1, -1>>, <<-2, 0, 0>>, <<0, 0, 0>>, <<275, 347, 3503>>}

(* ------------------------- ChinookGenreMapper -------------------------- *)
(* A Spotify genre is a sequence of characters; a catalog genre name is    *)
(* one value.  genre_mapping keeps the order of the dict literal.          *)
genre_mapping ==
    << <<<<"r", "o", "c", "k">>, "Rock">>,
       <<<<"m", "e", "t", "a", "l">>, "Metal">>,
       <<<<"h", "a", "r", "d", " ", "r", "o", "c", "k">>, "Rock">>,
       <<<<"p", "u", "n", "k">>, "Alternative & Punk">>,
       <<<<"a", "l", "t", "e", "r", "n", "a", "t", "i", "v", "e">>, "Alternative">>,
       <<<<"i", "n", "d", "i", "e">>, "Alternative">>,
       <<<<"p", "o", "p">>, "Pop">>,
       <<<<"h", "i", "p", " ", "h", "o", "p">>, "Hip Hop/Rap">>,
       <<<<"r", "a", "p">>, "Hip Hop/Rap">>,
       <<<<"t", "r", "a", "p">>, "Hip Hop/Rap">>,
       <<<<"r", "&", "b">>, "R&B/Soul">>,
       <<<<"s", "o", "u", "l">>, "R&B/Soul">>,
       <<<<"j", "a", "z", "z">>, "Jazz">>,
       <<<<"b", "l", "u", "e", "s">>, "Blues">>,
       <<<<"c", "o", "u", "n", "t", "r", "y">>, "Country">>,
       <<<<"f", "o", "l", "k">>, "Folk">>,
       <<<<"c", "l", "a", "s", "s", "i", "c", "a", "l">>, "Classical">>,
       <<<<"e", "d", "m">>, "Electronica/Dance">>,
       <<<<"e", "l", "e", "c", "t", "r", "o", "n", "i", "c">>, "Electronica/Dance">>,
       <<<<"d", "a", "n", "c", "e">>, "Electronica/Dance">>,
       <<<<"t", "e", "c", "h", "n", "o">>, "Electronica/Dance">>,
       <<<<"h", "o", "u", "s", "e">>, "Electronica/Dance">>,
       <<<<"l", "a", "t", "i", "n">>, "Latin">>,
       <<<<"r", "e", "g", "g", "a", "e">>, "Reggae">>,
       <<<<"r", "e", "g", "g", "a", "e", "t", "o", "n">>, "Latin">>,
       <<<<"w", "o", "r", "l", "d">>, "World">> >>

UpperCase == <<"A", "B", "C", "D", "E", "F", "G", "H", "I", "J", "K", "L", "M", "N", "O", "P", "Q", "R", "S", "T", "U", "V", "W", "X", "Y", "Z">>
LowerCase == <<"a", "b", "c", "d", "e", "f", "g", "h", "i", "j", "k", "l", "m", "n", "o", "p", "q", "r", "s", "t", "u", "v", "w", "x", "y", "z">>

(* one character of str.lower() *)
LowerChar(c) ==
    IF \E i \in DOMAIN UpperCase : UpperCase[i] = c
    THEN LowerCase[CHOOSE i \in DOMAIN UpperCase : UpperCase[i] = c]
    ELSE c

Lower(s) == [i \in 1..Len(s) |-> LowerChar(s[i])]

(* key in spotify_genre *)
Contains(key, s) ==
    \E i \in 0..(Len(s) - Len(key)) : SubSeq(s, i + 1, i + Len(key)) = key

(* for key, value in self.genre_mapping.items(): ... return "Rock" *)
RECURSIVE MapLoop(_, _)
MapLoop(spotify_genre, i) ==
    IF i > Len(genre_mapping) THEN "Rock"
    ELSE IF Contains(genre_mapping[i][1], spotify_genre) THEN genre_mapping[i][2]
    ELSE MapLoop(spotify_genre, i + 1)

map_spotify_genre_to_chinook_Mut(spotify_genre) == MapLoop(spotify_genre, 1)

map_spotify_genre_to_chinook(spotify_genre) == MapLoop(Lower(spotify_genre), 1)

(* The genres of an artist, as the artist detail lists them: one or more   *)
(* words separated by spaces.                                              *)
GenreWords ==
    {<<"h", "a", "r", "d">>,
     <<"r", "o", "c", "k">>,
     <<"R", "o", "c", "k">>,
     <<"H", "a", "r", "d">>,
     <<"h", "i", "p">>,
     <<"h", "o", "p">>,
     <<"H", "i", "p", " ", "H", "o", "p">>,
     <<"p", "o", "p">>,
     <<"t", "r", "a", "p">>,
     <<"r", "e", "g", "g", "a", "e", "t", "o", "n">>,
     <<"z", "o", "r", "b", "l", "a", "x">>,
     <<"c", "o", "u", "n", "t", "r", "y">>,
     <<"F", "o", "l", "k">>,
     <<"r", "&", "b">>,
     <<"J", "A", "Z", "Z">>,
     <<"i", "n", "d", "i", "e">>}

RECURSIVE JoinWords(_)
JoinWords(ws) ==
    IF Len(ws) = 1 THEN ws[1] ELSE ws[1] \o <<" ">> \o JoinWords(Tail(ws))

SpotifyGenres == {JoinWords(ws) : ws \in UNION {[1..m -> GenreWords] : m \in 1..MaxWords}}

MapIdle ==
    /\ artist_genres = <<>>
    /\ genre = ""
    /\ genre_id = 0
    /\ map_pc = "idle"

MapInput ==
    /\ artist_genres \in {<<>>} \cup {<<g>> : g \in SpotifyGenres}
    /\ genre = ""
    /\ genre_id = 0
    /\ map_pc = "artist"

(* _process_album_data: genre = "Unknown", replaced by the mapping of the  *)
(* artist's first genre when the artist has genres                         *)
ProcessGenre ==
    /\ map_pc = "artist"
    /\ genre' = IF artist_genres # <<>>
                THEN map_spotify_genre_to_chinook(artist_genres[1])
                ELSE "Unknown"
    /\ map_pc' = "album_info"
    /\ UNCHANGED <<artist_genres, genre_id>>

(* generate_sql: genre_id = self.genre_mapper.get_genre_id(genre) *)
LookupGenreId ==
    /\ map_pc = "album_info"
    /\ genre_id' = get_genre_id(genre)
    /\ map_pc' = "done"
    /\ UNCHANGED <<artist_genres, genre>>

(* ----------------- main() and SpotifyAlbumFetcher ---------------------- *)
(* One step is one stage of main() or one iteration of a loop of the       *)
(* fetcher.  A make_request call is one event of the log: it returns or    *)
(* it raises (its retries are the client's, above).                        *)

(* datetime.now().year *)
CurrentYear == 2026

ArgYears == (CurrentYear - 1)..(CurrentYear + 1)
Counts == {0, 1, MaxItems, SpotifyMaxLimit + 1}
ArgSets == [start_year : ArgYears, end_year : ArgYears, count : Counts, max_rows : {0, 1}]

NotExited == -1
NoDate == 0
NoItem == 0

(* An album detail: its release year (NoDate without release_date),        *)
(* whether it has "name" and "artists"; Falsy is an empty or null detail.  *)
Detail(r, n, a) == [release |-> r, name |-> n, artists |-> a, falsy |-> FALSE]
Falsy == [release |-> NoDate, name |-> FALSE, artists |-> FALSE, falsy |-> TRUE]
NoDetail == [release |-> NoDate, name |-> FALSE, artists |-> FALSE, falsy |-> FALSE]
Details(y) ==
    {Detail(y, TRUE, TRUE), Detail(NoDate, TRUE, TRUE), Detail(y - 1, TRUE, TRUE),
     Detail(y, FALSE, TRUE), Detail(y, TRUE, FALSE), Falsy}

MainEvent(o, k, y, i, l, d, acc) ==
    [op |-> o, ok |-> k, year |-> y, item |-> i, limit |-> l, detail |-> d,
     accepted |-> acc]
StageEvent(o, k) == MainEvent(o, k, 0, NoItem, 0, NoDetail, FALSE)
SearchEvent(k, y, l, n) == MainEvent("search", k, y, n, l, NoDetail, FALSE)
AlbumEvent(k, y, i, d, acc) == MainEvent("album", k, y, i, 0, d, acc)
ArtistEvent(k, y, i) == MainEvent("artist", k, y, i, 0, NoDetail, FALSE)

MainIdle ==
    /\ args = [start_year |-> CurrentYear, end_year |-> CurrentYear, count |-> 1,
               max_rows |-> 1]
    /\ main_pc = "idle"
    /\ log = <<>>
    /\ year = 0
    /\ n_items = 0
    /\ idx = 0
    /\ year_albums = <<>>
    /\ all_albums = <<>>
    /\ exit_status = NotExited
    /\ output = <<>>

MainStart ==
    /\ args \in ArgSets
    /\ main_pc = "validate_args"
    /\ log = <<>>
    /\ year = 0
    /\ n_items = 0
    /\ idx = 0
    /\ year_albums = <<>>
    /\ all_albums = <<>>
    /\ exit_status = NotExited
    /\ output = <<>>

Raise_Mut(new_log) ==
    /\ main_pc' = "exit"
    /\ exit_status' = 0
    /\ log' = new_log
    /\ UNCHANGED <<args, year, n_items, idx, year_albums, all_albums, output>>

(* except Exception as e: logger.error(...); return 1 *)
Raise(new_log) ==
    /\ main_pc' = "exit"
    /\ exit_status' = 1
    /\ log' = new_log
    /\ UNCHANGED <<args, year, n_items, idx, year_albums, all_albums, output>>

ArgsValid(a) == ~(a.start_year > a.end_year) /\ ~(a.count < 1) /\ ~(a.max_rows < 1)

ValidateArgs ==
    /\ main_pc = "validate_args"
    /\ IF ArgsValid(args)
       THEN /\ main_pc' = "get_max_ids"
            /\ log' = Append(log, StageEvent("validate_args", TRUE))
            /\ UNCHANGED <<args, year, n_items, idx, year_albums, all_albums,
                           exit_status, output>>
       ELSE Raise(Append(log, StageEvent("validate_args", FALSE)))

(* get_max_ids: the three input() prompts; int() may raise ValueError *)
GetMaxIds(ok) ==
    /\ main_pc = "get_max_ids"
    /\ IF ok
       THEN /\ main_pc' = "SpotifyClient"
            /\ log' = Append(log, StageEvent("input", TRUE))
            /\ UNCHANGED <<args, year, n_items, idx, year_albums, all_albums,
                           exit_status, output>>
       ELSE Raise(Append(log, StageEvent("input", FALSE)))

(* range(start_year, min(end_year + 1, current_year + 1)) ends here *)
LastYear == Min(args.end_year + 1, CurrentYear + 1) - 1

(* SpotifyClient(): the credentials from the environment, then the POST   *)
(* of _get_token; then the call of fetch_albums_by_year_range             *)
CreateClient(credentials, auth_ok) ==
    /\ main_pc = "SpotifyClient"
    /\ IF ~credentials
       THEN Raise(Append(log, StageEvent("getenv", FALSE)))
       ELSE IF ~auth_ok
       THEN Raise(log \o <<StageEvent("getenv", TRUE), StageEvent("post_token", FALSE)>>)
       ELSE /\ log' = log \o <<StageEvent("getenv", TRUE), StageEvent("post_token", TRUE)>>
            /\ main_pc' = "fetch"
            /\ year' = args.start_year
            /\ UNCHANGED <<args, n_items, idx, year_albums, all_albums,
                           exit_status, output>>

SearchLimit(max_albums) == Min(max_albums, SpotifyMaxLimit)

(* the search answers with at most `limit` items *)
SearchResults(max_albums) == 0..Min(SearchLimit(max_albums), MaxItems)

(* all_albums.extend(year_albums) with the slice of the return statement *)
ExtendAll(albs, max_albums) ==
    all_albums' = all_albums \o SubSeq(albs, 1, Min(Len(albs), max_albums))

(* _fetch_albums_for_year up to the loop over the items *)
SearchYear(ok, n) ==
    /\ main_pc = "fetch"
    /\ year <= LastYear
    /\ IF ~ok
       THEN Raise(Append(log, SearchEvent(FALSE, year, SearchLimit(args.count), 0)))
       ELSE /\ log' = Append(log, SearchEvent(TRUE, year, SearchLimit(args.count), n))
            /\ UNCHANGED <<args, exit_status, output>>
            /\ IF Min(n, args.count) = 0
               THEN /\ ExtendAll(<<>>, args.count)
                    /\ year_albums' = <<>>
                    /\ year' = year + 1
                    /\ main_pc' = "fetch"
                    /\ UNCHANGED <<n_items, idx>>
               ELSE /\ n_items' = Min(n, args.count)
                    /\ idx' = 1
                    /\ year_albums' = <<>>
                    /\ main_pc' = "albums"
                    /\ UNCHANGED <<year, all_albums>>

ReleaseMatches_Mut(d, y) == TRUE

(* release_year == year, release_date defaulting to f"{year}-01-01" *)
ReleaseMatches(d, y) == (IF d.release = NoDate THEN y ELSE d.release) = y

(* if album_data: ... if release_year == year: _process_album_data is not None *)
Accepted(d, y) == ~d.falsy /\ ReleaseMatches(d, y) /\ d.name /\ d.artists

(* the end of one iteration: break, next item, or return year_albums *)
NextItem(albs) ==
    IF Len(albs) >= args.count \/ idx = n_items
    THEN /\ ExtendAll(albs, args.count)
         /\ year_albums' = <<>>
         /\ year' = year + 1
         /\ main_pc' = "fetch"
         /\ UNCHANGED <<n_items, idx>>
    ELSE /\ idx' = idx + 1
         /\ year_albums' = albs
         /\ UNCHANGED <<year, all_albums, main_pc, n_items>>

(* one iteration of the loop over data["albums"]["items"][:max_albums] *)
FetchAlbum(ok, d, artist_ok) ==
    /\ main_pc = "albums"
    /\ IF ~ok
       THEN Raise(Append(log, AlbumEvent(FALSE, year, idx, NoDetail, FALSE)))
       ELSE IF ~Accepted(d, year)
       THEN /\ log' = Append(log, AlbumEvent(TRUE, year, idx, d, FALSE))
            /\ NextItem(year_albums)
            /\ UNCHANGED <<args, exit_status, output>>
       ELSE IF ~artist_ok
       THEN Raise(log \o <<AlbumEvent(TRUE, year, idx, d, FALSE),
                          ArtistEvent(FALSE, year, idx)>>)
       ELSE /\ log' = log \o <<AlbumEvent(TRUE, year, idx, d, TRUE),
                               ArtistEvent(TRUE, year, idx)>>
            /\ NextItem(Append(year_albums,
                                [year |-> year, item |-> idx, release |-> d.release]))
            /\ UNCHANGED <<args, exit_status, output>>

(* the return of fetch_albums_by_year_range and sql_generator.generate_sql *)
GenerateFile(ok) ==
    /\ main_pc = "fetch"
    /\ year > LastYear
    /\ IF ok
       THEN /\ log' = Append(log, StageEvent("generate_sql", TRUE))
            /\ main_pc' = "write_text"
            /\ UNCHANGED <<args, year, n_items, idx, year_albums, all_albums,
                           exit_status, output>>
       ELSE Raise(Append(log, StageEvent("generate_sql", FALSE)))

(* output_path.write_text(sql), the closing messages and return 0 *)
WriteFile(ok) ==
    /\ main_pc = "write_text"
    /\ IF ok
       THEN /\ log' = Append(log, StageEvent("write_text", TRUE))
            /\ output' = Append(output, all_albums)
            /\ main_pc' = "exit"
            /\ exit_status' = 0
            /\ UNCHANGED <<args, year, n_items, idx, year_albums, all_albums>>
       ELSE Raise(Append(log, StageEvent("write_text", FALSE)))

(* --------------------------- shift-dates.py ---------------------------- *)
(* A file is the sequence of its characters.                               *)
LF == "\n"
CR == "\r"

DatePrefix == <<"d", "a", "t", "e", " ", "'">>
YearDigits == 4
MaxFieldDigits == 3
Digits == <<"0", "1", "2", "3", "4", "5", "6", "7", "8", "9">>

(* \d, for the ASCII digits *)
IsDigit(c) == \E i \in DOMAIN Digits : Digits[i] = c
DigitVal(c) == (CHOOSE i \in DOMAIN Digits : Digits[i] = c) - 1

(* int(match.group(1)) *)
RECURSIVE ToInt(_)
ToInt(ds) ==
    IF ds = <<>> THEN 0
    ELSE 10 * ToInt(SubSeq(ds, 1, Len(ds) - 1)) + DigitVal(ds[Len(ds)])

(* the f-string rendering of an int: no padding, a sign when negative *)
RECURSIVE Decimal(_)
Decimal(n) ==
    IF n < 0 THEN <<"-">> \o Decimal(0 - n)
    ELSE IF n < 10 THEN <<Digits[n + 1]>>
    ELSE Decimal(n \div 10) \o <<Digits[(n % 10) + 1]>>

(* the number of digits of s from position j on *)
RECURSIVE RunLen(_, _)
RunLen(s, j) == IF j <= Len(s) /\ IsDigit(s[j]) THEN 1 + RunLen(s, j + 1) ELSE 0

NoMatch == [matched |-> FALSE, year |-> <<>>, month |-> <<>>, day |-> <<>>, len |-> 0]

(* date_pattern matched at position i of s:                                *)
(* date '(\d{4})-(\d{1,3})-(\d{1,3})'                                      *)
MatchAt(s, i) ==
    LET y0 == i + Len(DatePrefix)
        m0 == y0 + YearDigits + 1
        m == RunLen(s, m0)
        d0 == m0 + m + 1
        d == RunLen(s, d0)
    IN  IF /\ m0 - 1 <= Len(s)
           /\ SubSeq(s, i, y0 - 1) = DatePrefix
           /\ \A k \in y0..(m0 - 2) : IsDigit(s[k])
           /\ s[m0 - 1] = "-"
           /\ m \in 1..MaxFieldDigits
           /\ d0 - 1 <= Len(s)
           /\ s[d0 - 1] = "-"
           /\ d \in 1..MaxFieldDigits
           /\ d0 + d <= Len(s)
           /\ s[d0 + d] = "'"
        THEN [matched |-> TRUE, year |-> SubSeq(s, y0, m0 - 2),
              month |-> SubSeq(s, m0, d0 - 2), day |-> SubSeq(s, d0, d0 + d - 1),
              len |-> d0 + d + 1 - i]
        ELSE NoMatch

replace_date(match) ==
    DatePrefix \o Decimal(ToInt(match.year) - 1) \o <<"-">> \o match.month
        \o <<"-">> \o match.day \o <<"'">>

(* date_pattern.sub(replace_date, line): from position i, the text up to  *)
(* the leftmost match is copied, the match is replaced, and the scan goes  *)
(* on after the match                                                      *)
RECURSIVE SubFrom(_, _)
SubFrom(line, i) ==
    LET starts == {j \in i..Len(line) : MatchAt(line, j).matched}
    IN  IF starts = {} THEN SubSeq(line, i, Len(line))
        ELSE LET j == CHOOSE k \in starts : \A l \in starts : k <= l
                 match == MatchAt(line, j)
             IN  SubSeq(line, i, j - 1) \o replace_date(match)
                     \o SubFrom(line, j + match.len)

date_pattern_sub(line) == SubFrom(line, 1)

Iota(n) == [i \in 1..n |-> i]

(* open(input_file, 'r'): universal newlines turn "\r\n" and "\r" into "\n" *)
ReadText(bytes) ==
    LET kept == SelectSeq(Iota(Len(bytes)),
                          LAMBDA i : ~(bytes[i] = LF /\ i > 1 /\ bytes[i - 1] = CR))
    IN  [k \in 1..Len(kept) |-> IF bytes[kept[k]] = CR THEN LF ELSE bytes[kept[k]]]

(* for line in infile: the lines, each with its "\n" (the last may lack it) *)
ReadLines(text) ==
    LET ends == SelectSeq(Iota(Len(text)), LAMBDA i : text[i] = LF \/ i = Len(text))
    IN  [k \in 1..Len(ends) |->
            SubSeq(text, IF k = 1 THEN 1 ELSE ends[k - 1] + 1, ends[k])]

(* outfile.write(modified_line) in text mode: the "\n" that ends the line  *)
(* is written as os.linesep                                                *)
WriteText(line, sep) ==
    IF line # <<>> /\ line[Len(line)] = LF
    THEN SubSeq(line, 1, Len(line) - 1) \o sep
    ELSE line

shift_dates(bytes, sep) ==
    LET lines == ReadLines(ReadText(bytes))
    IN  Flatten([i \in 1..Len(lines) |-> WriteText(date_pattern_sub(lines[i]), sep)])

LineSeps == {<<LF>>, <<CR, LF>>}

SqlTokens ==
    {<<"d", "a", "t", "e", " ", "'", "2", "0", "2", "1", "-", "0", "6", "-", "1", "5", "'">>,
     <<"d", "a", "t", "e", " ", "'", "2", "0", "2", "1", "-", "1", "-", "1", "'">>,
     <<"d", "a", "t", "e", " ", "'", "2", "0", "2", "1", "-", "1", "3", "-", "4", "0", "'">>,
     <<"d", "a", "t", "e", " ", "'", "0", "9", "9", "9", "-", "1", "-", "1", "'">>,
     <<"d", "a", "t", "e", " ", "'", "0", "0", "0", "0", "-", "1", "2", "-", "3", "1", "'">>,
     <<"d", "a", "t", "e", " ", "'", "2", "0", "2", "1", "-", "1", "2", "3", "4", "-", "1", "'">>,
     <<"d", "a", "t", "e", " ", "'">>,
     <<"2", "0", "2", "1", "-", "1", "-", "1", "'">>,
     <<"x">>,
     <<"\n">>,
     <<"\r", "\n">>}

SqlFiles == {Flatten(ts) : ts \in UNION {[1..m -> SqlTokens] : m \in 0..MaxTokens}}

ShiftIdle ==
    /\ infile = <<>>
    /\ outfile = <<>>
    /\ linesep = <<LF>>
    /\ shift_pc = "idle"

ShiftInput ==
    /\ infile \in SqlFiles
    /\ outfile = <<>>
    /\ linesep \in LineSeps
    /\ shift_pc = "start"

ShiftDates ==
    /\ shift_pc = "start"
    /\ outfile' = shift_dates(infile, linesep)
    /\ shift_pc' = "done"
    /\ UNCHANGED <<infile, linesep>>

ToolsIdle == MapIdle /\ MainIdle /\ ShiftIdle

GenIdle ==
    /\ albums = <<>>
    /\ max_artist_id = 0
    /\ max_album_id = 0
    /\ max_track_id = 0
    /\ max_rows_per_batch = 1
    /\ gen_pc = "idle"
    /\ gen = NoOutput

Init == ClientInit /\ GenIdle /\ ToolsIdle

(* The client at rest, for the runs of the generator alone. *)
ClientIdle ==
    /\ token = "tokA"
    /\ headers = CreateHeaders(token)
    /\ request_count = 0
    /\ last_request_time = 0
    /\ now = Epoch
    /\ pc = "idle"
    /\ url = ""
    /\ retry_count = 0
    /\ result = NoResult
    /\ trace = <<>>
    /\ get_times = <<>>

GenInit ==
    /\ ClientIdle
    /\ ToolsIdle
    /\ albums \in SeqsUpTo(AlbumRecords, MaxAlbums)
    /\ \E ids \in IdStarts :
         /\ max_artist_id = ids[1]
         /\ max_album_id = ids[2]
         /\ max_track_id = ids[3]
    /\ max_rows_per_batch \in 1..MaxRows
    /\ gen_pc = "input"
    /\ gen = NoOutput

(* sql_generator.generate_sql(albums, max_artist_id, max_album_id, max_track_id) *)
GenerateSql(seed) ==
    /\ gen_pc = "input"
    /\ gen' = generate_sql(albums, max_artist_id, max_album_id, max_track_id,
                           max_rows_per_batch, seed)
    /\ gen_pc' = "done"
    /\ UNCHANGED <<albums, max_artist_id, max_album_id, max_track_id, max_rows_per_batch>>
    /\ UNCHANGED <<clientVars, toolVars>>

GenNext == \E seed \in 0..MaxSeed : GenerateSql(seed)

GenSpec == GenInit /\ [][GenNext]_vars

(* Wall-clock time passing outside the sleeps of the client. *)
Tick ==
    /\ now < MaxTime
    /\ now' = now + 1
    /\ UNCHANGED <<token, headers, request_count, last_request_time,
                   pc, url, retry_count, result, trace, get_times>>
    /\ UNCHANGED <<genVars, toolVars>>

Next ==
    \/ \E u \in Urls : Call(u)
    \/ \E resp \in Responses : \E auth \in TokenOutcomesFor(resp) : Attempt(resp, auth)
    \/ Tick

Spec == Init /\ [][Next]_vars

(* The genre mapper alone. *)
MapNext ==
    \/ ProcessGenre /\ UNCHANGED <<clientVars, genVars, mainVars, shiftVars>>
    \/ LookupGenreId /\ UNCHANGED <<clientVars, genVars, mainVars, shiftVars>>

MapInit ==
    /\ ClientIdle
    /\ GenIdle
    /\ MainIdle
    /\ ShiftIdle
    /\ MapInput

MapSpec == MapInit /\ [][MapNext]_vars

(* main() alone: the calls of make_request return or raise. *)
MainNext ==
    \/ ValidateArgs /\ UNCHANGED <<clientVars, genVars, mapVars, shiftVars>>
    \/ \E ok \in BOOLEAN : GetMaxIds(ok) /\ UNCHANGED <<clientVars, genVars, mapVars, shiftVars>>
    \/ \E credentials, auth_ok \in BOOLEAN :
          CreateClient(credentials, auth_ok) /\ UNCHANGED <<clientVars, genVars, mapVars, shiftVars>>
    \/ \E ok \in BOOLEAN : \E n \in SearchResults(args.count) :
          SearchYear(ok, n) /\ UNCHANGED <<clientVars, genVars, mapVars, shiftVars>>
    \/ \E ok, artist_ok \in BOOLEAN : \E d \in Details(year) :
          FetchAlbum(ok, d, artist_ok) /\ UNCHANGED <<clientVars, genVars, mapVars, shiftVars>>
    \/ \E ok \in BOOLEAN : GenerateFile(ok) /\ UNCHANGED <<clientVars, genVars, mapVars, shiftVars>>
    \/ \E ok \in BOOLEAN : WriteFile(ok) /\ UNCHANGED <<clientVars, genVars, mapVars, shiftVars>>

MainInit ==
    /\ ClientIdle
    /\ GenIdle
    /\ MapIdle
    /\ ShiftIdle
    /\ MainStart

MainSpec == MainInit /\ [][MainNext]_vars

(* shift-dates.py alone. *)
ShiftNext == ShiftDates /\ UNCHANGED <<clientVars, genVars, mapVars, mainVars>>

ShiftInit ==
    /\ ClientIdle
    /\ GenIdle
    /\ MapIdle
    /\ MainIdle
    /\ ShiftInput

ShiftSpec == ShiftInit /\ [][ShiftNext]_vars

(* ------------------------------ claims --------------------------------- *)

Gets(tr) == SelectSeq(tr, LAMBDA e : e.op = "get")
Waits(tr) == SelectSeq(tr, LAMBDA e : e.op \in {"retry_after", "backoff"})
Auths(tr) == SelectSeq(tr, LAMBDA e : e.op = "get_token")
Ops(tr) == [i \in 1..Len(tr) |-> tr[i].op]
Statuses(tr) == [i \in 1..Len(Gets(tr)) |-> Gets(tr)[i].status]
AllAnswer(tr, st) == \A i \in 1..Len(Gets(tr)) : Gets(tr)[i].status = st
GoodRetryAfter(tr) == \A i \in 1..Len(Gets(tr)) : Gets(tr)[i].retry_after # BadHeader
AllAuthOk(tr) == \A i \in 1..Len(Auths(tr)) : Auths(tr)[i].status = 200

(* C1, as stated: whenever make_request raises after every attempt met the *)
(* same kind of failure (429, 401, network error, or another HTTP status   *)
(* such as 500), exactly 3 GET attempts were issued.  Read in the claim's  *)
(* favour: every Retry-After is well formed and every re-authentication    *)
(* succeeds.                                                               *)
C1_AsStated ==
    (pc = "raised" /\ GoodRetryAfter(trace) /\ AllAuthOk(trace)
       /\ \E st \in {429, 401, 0, 500} : AllAnswer(trace, st))
        => Len(Gets(trace)) = max_retries

(* C1, amended: when every attempt answers 429 with an absent or numeric   *)
(* Retry-After, or fails with a network error, or answers 401 with every   *)
(* re-authentication succeeding, make_request raises only after exactly 3  *)
(* GET attempts; when every attempt answers another HTTP error status      *)
(* (500) it raises after the 1st attempt; no call ever issues a 4th GET.   *)
C1_RetryExhaustion ==
    /\ Len(Gets(trace)) <= max_retries
    /\ pc = "loop" => Len(Gets(trace)) = retry_count /\ retry_count < max_retries
    /\ pc = "raised" =>
        /\ ((AllAnswer(trace, 429) /\ GoodRetryAfter(trace)) \/ AllAnswer(trace, 0)
              \/ (AllAnswer(trace, 401) /\ AllAuthOk(trace)))
             => Len(Gets(trace)) = max_retries
        /\ AllAnswer(trace, 500) => Len(Gets(trace)) = 1

C1_Witness ==
    /\ pc = "raised"
    /\ Statuses(trace) = <<0, 0, 0>>

(* C2: no more than 10 GET requests are issued within any 1-second window. *)
C2_AtMostTenPerSecond == Len(get_times) <= RateLimitCount

(* C3: when the first attempt answers 429 with Retry-After r and the       *)
(* second succeeds, the call performs exactly one retry wait, of r seconds *)
(* (1 when the header is absent), no backoff wait, and returns the JSON of *)
(* the second attempt.                                                     *)
C3_RetryAfterHonoured ==
    (pc = "returned" /\ Len(Gets(trace)) = 2 /\ Gets(trace)[1].status = 429) =>
        /\ Ops(trace) = <<"rate_limit", "get", "retry_after", "rate_limit", "get">>
        /\ Len(Waits(trace)) = 1
        /\ Waits(trace)[1].op = "retry_after"
        /\ Waits(trace)[1].secs = IF Gets(trace)[1].retry_after = NoHeader THEN 1
                                  ELSE Gets(trace)[1].retry_after
        /\ Gets(trace)[2].status = 200
        /\ result.kind = "return"
        /\ result.json = Gets(trace)[2].json

C3_Witness ==
    /\ pc = "returned"
    /\ Statuses(trace) = <<429, 200>>
    /\ Gets(trace)[1].retry_after = 2
    /\ Waits(trace)[1].secs = 2

(* C4: a 401 answer is followed by a re-authentication before the next     *)
(* attempt, every later GET carries the Authorization header of the token  *)
(* obtained last, and at every GET the headers sent are those derived from *)
(* the client's current token.                                             *)
C4_HeadersFollowToken ==
    /\ headers = CreateHeaders(token)
    /\ \A i \in 1..Len(trace) :
        /\ trace[i].op = "get" => trace[i].sent = trace[i].current
        /\ (trace[i].op = "get" /\ trace[i].status = 401) =>
              /\ i < Len(trace)
              /\ trace[i + 1].op = "get_token"
        /\ (trace[i].op = "get_token" /\ trace[i].status = 200) =>
              /\ \A j \in (i + 1)..Len(trace) :
                    (trace[j].op = "get"
                       /\ \A k \in (i + 1)..(j - 1) : trace[k].op # "get_token")
                    => trace[j].sent = trace[i].current
              /\ (\A k \in (i + 1)..Len(trace) : trace[k].op # "get_token")
                    => headers = trace[i].current

C4_Witness ==
    \E i, j \in 1..Len(trace) :
        /\ i < j
        /\ trace[i].op = "get" /\ trace[i].status = 401
        /\ trace[j].op = "get"
        /\ trace[j].sent # trace[i].sent

(* C5, as stated: whenever make_request gives up after its 3 attempts,     *)
(* whatever failures (429, 401, network error) exhausted them, the error   *)
(* raised is the terminal failure naming the URL and the attempt count.    *)
(* Read in the claim's favour: every Retry-After is well formed and every  *)
(* re-authentication succeeds.                                             *)
C5_AsStated ==
    (pc = "raised" /\ Len(Gets(trace)) = max_retries
       /\ GoodRetryAfter(trace) /\ AllAuthOk(trace)
       /\ \A i \in 1..max_retries : Gets(trace)[i].status \in {429, 401, 0})
    => (result.error.type = "Exception" /\ result.error.url = url
          /\ result.error.retries = max_retries)

(* C5, amended: when make_request gives up after its 3 attempts and the    *)
(* last attempt answered 429 with an absent or numeric Retry-After, or     *)
(* answered 401 and the re-authentication succeeded, the error raised is   *)
(* the terminal failure naming the URL and the attempt count; when the     *)
(* last attempt failed with a network error, that error is re-raised       *)
(* instead.                                                                *)
C5_TerminalFailure ==
    (pc = "raised" /\ Len(Gets(trace)) = max_retries) =>
        LET last == Gets(trace)[max_retries]
        IN  /\ ((last.status = 429 /\ last.retry_after # BadHeader)
                   \/ (last.status = 401 /\ trace[Len(trace)].status = 200))
                 => (result.error.type = "Exception" /\ result.error.url = url
                       /\ result.error.retries = max_retries)
            /\ last.status = 0 => result.error = NetworkError

C5_Witness ==
    /\ pc = "raised"
    /\ Statuses(trace) = <<0, 401, 429>>
    /\ result.error.url = url
    /\ url # ""

(* ----------------------- claims on generate_sql ------------------------ *)

Indices(text, Test(_)) ==
    SelectSeq([i \in 1..Len(text) |-> i], LAMBDA i : Test(text[i]))
RowLines(text, t) == SelectSeq(text, LAMBDA l : l.kind = "row" /\ l.table = t)
RowVals(text, t) ==
    LET lines == RowLines(text, t) IN [i \in 1..Len(lines) |-> lines[i].vals]
Ids(rows) == [i \in 1..Len(rows) |-> rows[i][1]]
Range(f) == {f[i] : i \in DOMAIN f}

NamesUpTo(i) == {albums[j].artist_name : j \in 1..i}
FirstOccurrence(name) ==
    CHOOSE i \in 1..Len(albums) :
        albums[i].artist_name = name /\ \A j \in 1..(i - 1) : albums[j].artist_name # name

RECURSIVE TotalTracks(_)
TotalTracks(albs) ==
    IF albs = <<>> THEN 0 ELSE Len(Head(albs).tracks) + TotalTracks(Tail(albs))

(* the pairs <<album index, track index>> of the input, in input order *)
RECURSIVE TrackOrder(_, _)
TrackOrder(albs, a) ==
    IF a > Len(albs) THEN <<>>
    ELSE [j \in 1..Len(albs[a].tracks) |-> <<a, j>>] \o TrackOrder(albs, a + 1)

(* C6: at most one Artist row per distinct artist name, its ID is the one  *)
(* assigned at the first occurrence of the name in input order, and every  *)
(* Album row of an album naming the artist carries exactly that ArtistId.  *)
C6_ArtistDedup ==
    gen_pc = "done" =>
      LET ArtistRows == RowVals(gen.text, "Artist")
          AlbumRows == RowVals(gen.text, "Album")
      IN
        /\ \A name \in NamesUpTo(Len(albums)) :
             /\ Cardinality({i \in 1..Len(ArtistRows) :
                               ArtistRows[i][2] = escape_sql_string(name)}) = 1
             /\ \A i \in 1..Len(ArtistRows) :
                  ArtistRows[i][2] = escape_sql_string(name) =>
                     ArtistRows[i][1]
                        = max_artist_id + Cardinality(NamesUpTo(FirstOccurrence(name)))
        /\ Len(ArtistRows) = Cardinality(NamesUpTo(Len(albums)))
        /\ Len(AlbumRows) = Len(gen.album_map)
        /\ \A r \in 1..Len(AlbumRows) :
             LET name == albums[gen.album_map[r].src].artist_name
             IN  /\ AlbumRows[r][1] = gen.album_map[r].album_id
                 /\ AlbumRows[r][3]
                      = max_artist_id + Cardinality(NamesUpTo(FirstOccurrence(name)))
                 /\ \E i \in 1..Len(ArtistRows) :
                      /\ ArtistRows[i][2] = escape_sql_string(name)
                      /\ ArtistRows[i][1] = AlbumRows[r][3]

C6_Witness ==
    /\ gen_pc = "done"
    /\ Len(albums) = 2
    /\ albums[1].artist_name = albums[2].artist_name
    /\ Len(RowLines(gen.text, "Artist")) = 1
    /\ Len(RowLines(gen.text, "Album")) = 2
    /\ RowVals(gen.text, "Album")[1][3] = RowVals(gen.text, "Album")[2][3]

(* C7: for non-negative starting maxima the artist IDs are exactly         *)
(* start+1..start+A, the album IDs start+1..start+N and the track IDs      *)
(* start+1..start+T, increasing in input order without gap or reuse, each  *)
(* counter depending on its own start only.                                *)
C7_ContiguousIds ==
    (gen_pc = "done" /\ max_artist_id >= 0 /\ max_album_id >= 0 /\ max_track_id >= 0) =>
      LET ArtistRows == RowVals(gen.text, "Artist")
          AlbumRows == RowVals(gen.text, "Album")
          TrackRows == RowVals(gen.text, "Track")
          Order == TrackOrder(albums, 1)
      IN
        /\ Ids(ArtistRows)
             = [i \in 1..Cardinality(NamesUpTo(Len(albums))) |-> max_artist_id + i]
        /\ Ids(AlbumRows) = [i \in 1..Len(albums) |-> max_album_id + i]
        /\ \A r \in 1..Len(AlbumRows) :
             /\ gen.album_map[r].src = r
             /\ AlbumRows[r][2] = escape_sql_string(albums[r].album_name)
        /\ Ids(TrackRows) = [i \in 1..TotalTracks(albums) |-> max_track_id + i]
        /\ \A t \in 1..Len(TrackRows) :
             LET at == Order[t]
             IN  /\ TrackRows[t][3] = max_album_id + at[1]
                 /\ TrackRows[t][2] = escape_sql_string(albums[at[1]].tracks[at[2]].name)
                 /\ TrackRows[t][7] = albums[at[1]].tracks[at[2]].duration_ms

C7_Witness ==
    /\ gen_pc = "done"
    /\ max_artist_id = 275 /\ max_album_id = 347 /\ max_track_id = 3503
    /\ Ids(RowVals(gen.text, "Artist")) = <<276, 277>>
    /\ Ids(RowVals(gen.text, "Album")) = <<348, 349>>
    /\ Ids(RowVals(gen.text, "Track")) = <<3504, 3505, 3506>>

(* C8: for every integer triple of starting maxima, 0 and -1 included, the *)
(* number of Album rows equals the number of input albums and the number   *)
(* of Track rows equals the total number of input tracks.                  *)
C8_EveryAlbumEmitted ==
    gen_pc = "done" =>
        /\ Len(RowLines(gen.text, "Album")) = Len(albums)
        /\ Len(RowLines(gen.text, "Track")) = TotalTracks(albums)

Rank(l) ==
    CASE l.kind = "header" -> 0
      [] l.table = "Artist" -> 1
      [] l.table = "Album" -> 2
      [] l.table = "Track" -> 3
      [] OTHER -> 4

IsRow(t, l) == l.kind = "row" /\ l.table = t

(* C9: every Album row references an Artist row and every Track row an     *)
(* Album row emitted earlier in the same text; the text is the header,     *)
(* then all Artist inserts, all Album inserts, all Track inserts; a block  *)
(* with no rows is omitted entirely.                                       *)
C9_ReferentialOrder ==
    gen_pc = "done" =>
        LET text == gen.text
            Solid == SelectSeq(text, LAMBDA l : l.kind # "blank")
            Ranks == [i \in 1..Len(Solid) |-> Rank(Solid[i])]
        IN  /\ SubSeq(text, 1, Len(generate_header)) = generate_header
            /\ \A i \in (Len(generate_header) + 1)..Len(text) : text[i].kind # "header"
            /\ \A i \in 1..(Len(Ranks) - 1) : Ranks[i] <= Ranks[i + 1]
            /\ \A p \in 1..Len(text) :
                 /\ IsRow("Album", text[p]) =>
                      \E q \in 1..(p - 1) :
                          IsRow("Artist", text[q]) /\ text[q].vals[1] = text[p].vals[3]
                 /\ IsRow("Track", text[p]) =>
                      \E q \in 1..(p - 1) :
                          IsRow("Album", text[q]) /\ text[q].vals[1] = text[p].vals[3]
            /\ \A t \in {"Artist", "Album", "Track"} :
                 (RowLines(text, t) = <<>>) <=>
                     (\A i \in 1..Len(text) : text[i].table # t)

C9_Witness ==
    /\ gen_pc = "done"
    /\ Len(RowLines(gen.text, "Artist")) = 2
    /\ Len(RowLines(gen.text, "Album")) = 2
    /\ Len(RowLines(gen.text, "Track")) = 0
    /\ RowVals(gen.text, "Album")[1][3] # RowVals(gen.text, "Album")[2][3]

Ceil(n, k) == (n + k - 1) \div k

RECURSIVE RunLength(_, _, _)
RunLength(text, t, p) ==
    IF p <= Len(text) /\ IsRow(t, text[p]) THEN 1 + RunLength(text, t, p + 1) ELSE 0

(* the statements of table t in text, checked against the row list rows   *)
(* and the batch limit k                                                   *)
Batched(text, t, rows, k) ==
    LET n == Len(rows)
        Starts == Indices(text, LAMBDA l : l.kind = "comment" /\ l.table = t)
        Sizes == [s \in 1..Len(Starts) |-> RunLength(text, t, Starts[s] + 2)]
        Size(s) == Sizes[s]
        Batch(s) == [r \in 1..Size(s) |-> text[Starts[s] + 1 + r].vals]
    IN  /\ Len(Starts) = Ceil(n, k)
        /\ Len(Indices(text, LAMBDA l : l.kind = "insert" /\ l.table = t)) = Ceil(n, k)
        /\ \A s \in 1..Len(Starts) :
             /\ text[Starts[s]].i = s
             /\ text[Starts[s]].n = Ceil(n, k)
             /\ text[Starts[s] + 1].kind = "insert"
             /\ text[Starts[s] + 1].table = t
             /\ Size(s) >= 1
             /\ Size(s) <= k
             /\ s < Len(Starts) => Size(s) = k
             /\ \A r \in 1..Size(s) :
                  text[Starts[s] + 1 + r].term = IF r = Size(s) THEN ";" ELSE ","
             /\ text[Starts[s] + 2 + Size(s)].kind = "blank"
        /\ Flatten([s \in 1..Len(Starts) |-> Batch(s)]) = rows
        /\ RowVals(text, t) = rows

(* C10: for n rows and batch limit k >= 1 each emitter produces exactly    *)
(* ceil(n/k) INSERT statements of 1..k rows, all but the last of exactly k *)
(* rows, the i-th labelled batch i of ceil(n/k), and the batches in order  *)
(* are the original rows, none lost or duplicated.                         *)
C10_Batching ==
    gen_pc = "done" =>
        /\ Batched(gen.text, "Artist", gen.new_artists, max_rows_per_batch)
        /\ Batched(gen.text, "Album", gen.new_albums, max_rows_per_batch)
        /\ Batched(gen.text, "Track", gen.new_tracks, max_rows_per_batch)
        /\ Batched(generate_artist_sql(gen.new_artists, max_rows_per_batch), "Artist",
                   gen.new_artists, max_rows_per_batch)
        /\ Batched(generate_album_sql(gen.new_albums, max_rows_per_batch), "Album",
                   gen.new_albums, max_rows_per_batch)
        /\ Batched(generate_track_sql(gen.new_tracks, max_rows_per_batch), "Track",
                   gen.new_tracks, max_rows_per_batch)

C10_Witness ==
    /\ gen_pc = "done"
    /\ max_rows_per_batch = 3
    /\ Len(gen.new_tracks) = 4
    /\ Len(Indices(gen.text, LAMBDA l : l.kind = "insert" /\ l.table = "Track")) = 2
    /\ Len(gen.new_artists) = 2

(* ------------------------------ mapper --------------------------------- *)
(* key k of the table occurs in s once the case of s is ignored *)
MatchesKey(k, s) ==
    LET key == genre_mapping[k][1]
    IN  \E i \in 0..(Len(s) - Len(key)) :
            \A j \in 1..Len(key) :
                \/ s[i + j] = key[j]
                \/ \E u \in DOMAIN UpperCase : UpperCase[u] = s[i + j] /\ LowerCase[u] = key[j]

MatchingKeys(s) == {k \in 1..Len(genre_mapping) : MatchesKey(k, s)}

(* C11: map_spotify_genre_to_chinook returns the value of the first key,   *)
(* in the order of the mapping table, that is a substring of the           *)
(* lowercased input, and "Rock" when no key is; "hard rock" and            *)
(* "Hard Rock" give "Rock", "hip hop" gives "Hip Hop/Rap", and "zorblax"   *)
(* gives "Rock", whose ID from get_genre_id is 1.                          *)
C11_FirstKeyWins ==
    (map_pc # "artist" /\ artist_genres # <<>>) =>
        LET g == artist_genres[1]
            hits == MatchingKeys(g)
        IN  /\ hits = {} => genre = "Rock"
            /\ hits # {} =>
                  \E k \in hits : (\A j \in hits : k <= j) /\ genre = genre_mapping[k][2]
            /\ g \in {<<"h", "a", "r", "d", " ", "r", "o", "c", "k">>,
                      <<"H", "a", "r", "d", " ", "R", "o", "c", "k">>} => genre = "Rock"
            /\ g = <<"h", "i", "p", " ", "h", "o", "p">> => genre = "Hip Hop/Rap"
            /\ g = <<"z", "o", "r", "b", "l", "a", "x">> =>
                  genre = "Rock" /\ (map_pc = "done" => genre_id = 1)

(* "Hip Hop pop" holds the keys "pop" and "hip hop"; "pop" comes first *)
C11_Witness ==
    /\ map_pc = "done"
    /\ artist_genres = <<<<"H", "i", "p", " ", "H", "o", "p", " ", "p", "o", "p">>>>
    /\ genre = "Pop"
    /\ genre_id = 9

(* ------------------------------- main ---------------------------------- *)
Positions(l, ops) == {i \in 1..Len(l) : l[i].op \in ops}
NetworkOps == {"post_token", "search", "album", "artist"}
Failures(l) == {i \in 1..Len(l) : ~l[i].ok}
YearRange == {y \in ArgYears : args.start_year <= y /\ y <= args.end_year /\ y <= CurrentYear}
SearchedYears(l) == {l[i].year : i \in Positions(l, {"search"})}

(* C12: in main, argument validation precedes every prompt and every       *)
(* network request, the credential check precedes every network request,   *)
(* the output file is written at most once and only after every fetch and  *)
(* the SQL generation completed without error, and when validation, the    *)
(* ID input, the credential check, authentication, a fetch or the          *)
(* generation fails, no file is written and main returns non-zero.         *)
C12_StageOrder ==
    LET validated == {i \in Positions(log, {"validate_args"}) : log[i].ok}
        checked == {i \in Positions(log, {"getenv"}) : log[i].ok}
        network == Positions(log, NetworkOps)
        writes == {i \in Positions(log, {"write_text"}) : log[i].ok}
        early == {i \in Failures(log) : log[i].op # "write_text"}
    IN  /\ \A i \in Positions(log, {"input"}) \cup network : \E j \in validated : j < i
        /\ \A i \in network : \E j \in checked : j < i
        /\ Cardinality(writes) = Len(output)
        /\ Len(output) <= 1
        /\ exit_status = 0 => Len(output) = 1
        /\ \A w \in writes :
             /\ w = Len(log)
             /\ \A i \in 1..(w - 1) : log[i].ok
             /\ log[w - 1].op = "generate_sql"
             /\ SearchedYears(log) = YearRange
             /\ output[1] = all_albums
        /\ early # {} =>
             /\ main_pc = "exit"
             /\ output = <<>>
             /\ exit_status \notin {0, NotExited}

(* a run over two years that wrote the albums of both *)
C12_Witness ==
    /\ main_pc = "exit"
    /\ exit_status = 0
    /\ Len(output) = 1
    /\ \E i, j \in 1..Len(output[1]) : output[1][i].year < output[1][j].year

(* ---------------------------- shift-dates ------------------------------ *)
(* C13: shift_dates rewrites every date 'YYYY-M-D' so that the year is     *)
(* decremented by exactly 1 and the month and day digits are kept, and     *)
(* writes every character outside a match, and every line without a        *)
(* match, unchanged and in order: the output file is the input file with   *)
(* its date literals substituted.                                          *)
C13_OnlyDatesRewritten ==
    shift_pc = "done" => outfile = date_pattern_sub(infile)

(* ------------------------------ escaping ------------------------------- *)
(* the length of the run of single quotes of s that starts at position i *)
QuoteRun(s, i) ==
    CHOOSE n \in 1..(Len(s) - i + 1) :
        /\ \A k \in 0..(n - 1) : s[i + k] = Quote
        /\ (i + n > Len(s) \/ s[i + n] # Quote)

EvenQuoteRuns(s) ==
    \A i \in 1..Len(s) :
        (s[i] = Quote /\ (i = 1 \/ s[i - 1] # Quote)) => QuoteRun(s, i) % 2 = 0

(* s with every pair of single quotes read as one, as SQL reads a literal *)
RECURSIVE Halve(_)
Halve(s) ==
    IF s = <<>> THEN <<>>
    ELSE IF Len(s) >= 2 /\ s[1] = Quote /\ s[2] = Quote
    THEN <<Quote>> \o Halve(Tail(Tail(s)))
    ELSE <<Head(s)>> \o Halve(Tail(s))

TrackTexts(albs) ==
    UNION {{albs[a].tracks[j].name, albs[a].tracks[j].composer} :
              <<a, j>> \in {<<a, j>> \in (1..Len(albs)) \X (1..MaxTracks) :
                               j <= Len(albs[a].tracks)}}

(* C14: escape_sql_string doubles every single quote and leaves every      *)
(* other character unchanged (None gives the empty string), and            *)
(* generate_sql applies it to the artist name, album title, track name     *)
(* and composer it embeds, so in every emitted string literal each         *)
(* maximal run of single quotes has even length, and reading the pairs as  *)
(* one quote gives back the input text.                                    *)
C14_LiteralsEscaped ==
    /\ escape_sql_string(None) = <<>>
    /\ gen_pc = "done" =>
         LET artist_rows == RowVals(gen.text, "Artist")
             album_rows == RowVals(gen.text, "Album")
             track_rows == RowVals(gen.text, "Track")
         IN  /\ \A r \in 1..Len(artist_rows) :
                  /\ EvenQuoteRuns(artist_rows[r][2])
                  /\ \E a \in 1..Len(albums) :
                       Halve(artist_rows[r][2]) = albums[a].artist_name
             /\ \A r \in 1..Len(album_rows) :
                  /\ EvenQuoteRuns(album_rows[r][2])
                  /\ Halve(album_rows[r][2]) = albums[gen.album_map[r].src].album_name
             /\ \A r \in 1..Len(track_rows) :
                  /\ EvenQuoteRuns(track_rows[r][2])
                  /\ EvenQuoteRuns(track_rows[r][6])
                  /\ Halve(track_rows[r][2]) \in TrackTexts(albums)
                  /\ Halve(track_rows[r][6]) \in TrackTexts(albums)

(* a track named '' by the artist O'B: four quotes, and two, in the row *)
C14_Witness ==
    /\ gen_pc = "done"
    /\ \E r \in 1..Len(RowVals(gen.text, "Track")) :
         /\ RowVals(gen.text, "Track")[r][2] = <<Quote, Quote, Quote, Quote>>
         /\ RowVals(gen.text, "Track")[r][6] = <<"O", Quote, Quote, "B">>
    /\ \E r \in 1..Len(RowVals(gen.text, "Album")) :
         RowVals(gen.text, "Album")[r][2] = <<"T", Quote, Quote>>

(* ------------------------------ fetcher -------------------------------- *)
Searches(l) == SelectSeq(l, LAMBDA e : e.op = "search")
FetchReturned(l) == Positions(l, {"generate_sql"}) # {}
Kept == all_albums \o year_albums
AcceptedBefore(l, p) ==
    Cardinality({q \in 1..(p - 1) :
                    l[q].op = "album" /\ l[q].accepted /\ l[q].year = l[p].year})

(* What C15 says apart from the release year of the returned albums: the   *)
(* searches visit start_year, start_year + 1, ... one request each, up to  *)
(* min(end_year, current_year) when the call returns; a year gives at      *)
(* most min(albums_per_year, 50) albums, in search-result order; a detail  *)
(* without name or artists is skipped and the run goes on; no detail is    *)
(* fetched for a year that already has albums_per_year accepted albums.    *)
FetchDiscipline ==
    LET searches == Searches(log)
    IN  /\ \A k \in 1..Len(searches) :
             /\ searches[k].year = args.start_year + k - 1
             /\ searches[k].year <= Min(args.end_year, CurrentYear)
        /\ FetchReturned(log) => {searches[k].year : k \in 1..Len(searches)} = YearRange
        /\ \A y \in ArgYears :
             Cardinality({i \in 1..Len(Kept) : Kept[i].year = y})
                 <= Min(args.count, SpotifyMaxLimit)
        /\ \A i \in 1..(Len(Kept) - 1) :
             \/ Kept[i].year < Kept[i + 1].year
             \/ Kept[i].year = Kept[i + 1].year /\ Kept[i].item < Kept[i + 1].item
        /\ \A p \in Positions(log, {"album"}) :
             /\ AcceptedBefore(log, p) < args.count
             /\ (log[p].ok /\ ~(log[p].detail.name /\ log[p].detail.artists)) =>
                  /\ ~log[p].accepted
                  /\ \A i \in 1..Len(Kept) :
                       ~(Kept[i].year = log[p].year /\ Kept[i].item = log[p].item)
                  /\ p = Len(log) => main_pc # "exit"

(* C15 as stated: FetchDiscipline, and every returned album has a detail   *)
(* release year equal to the visited year.                                 *)
C15_AsStated ==
    /\ FetchDiscipline
    /\ \A i \in 1..Len(Kept) : Kept[i].release = Kept[i].year

(* C15 amended: FetchDiscipline, and every returned album has a detail     *)
(* release year equal to the visited year or a detail without              *)
(* release_date.                                                           *)
C15_FetchPerYear ==
    /\ FetchDiscipline
    /\ \A i \in 1..Len(Kept) : Kept[i].release \in {Kept[i].year, NoDate}

(* two years fetched: an album kept without release_date, one skipped for  *)
(* its missing name, one rejected for its release year                     *)
C15_Witness ==
    /\ main_pc = "write_text"
    /\ Len(Searches(log)) = 2
    /\ \E i \in 1..Len(all_albums) : all_albums[i].release = NoDate
    /\ \E i \in 1..Len(all_albums) : all_albums[i].release = all_albums[i].year
    /\ \E p \in Positions(log, {"album"}) : log[p].ok /\ ~log[p].detail.name
    /\ \E p \in Positions(log, {"album"}) : log[p].detail.release = log[p].year - 1

(* ------------------------------ backoff -------------------------------- *)
(* the number of the attempt whose GET is event p of tr *)
AttemptOf(tr, p) == Cardinality({q \in 1..p : tr[q].op = "get"})

(* C16: within one make_request call, the k-th attempt that fails at the   *)
(* network level is followed by a wait of 2^k seconds (2 after the first,  *)
(* 4 after the second) and the third, final one by no wait; every attempt, *)
(* retries included, is preceded by exactly one _rate_limit call.          *)
C16_ExponentialBackoff ==
    /\ \A p \in 1..Len(trace) :
         trace[p].op = "get" =>
           /\ p > 1
           /\ trace[p - 1].op = "rate_limit"
           /\ (p > 2 => trace[p - 2].op # "rate_limit")
    /\ Len(SelectSeq(trace, LAMBDA e : e.op = "rate_limit")) = Len(Gets(trace))
    /\ \A p \in 1..Len(trace) :
         (trace[p].op = "get" /\ trace[p].status = 0) =>
           LET k == AttemptOf(trace, p)
           IN  /\ k = 1 => (p < Len(trace) /\ trace[p + 1].op = "backoff"
                               /\ trace[p + 1].secs = 2)
               /\ k = 2 => (p < Len(trace) /\ trace[p + 1].op = "backoff"
                               /\ trace[p + 1].secs = 4)
               /\ k = 3 => (p = Len(trace) /\ pc = "raised")
               /\ k <= 3
    /\ \A p \in 1..Len(trace) :
         trace[p].op = "backoff" =>
           (p > 1 /\ trace[p - 1].op = "get" /\ trace[p - 1].status = 0)

(* three network failures in one call: waits of 2 and 4 seconds, then the *)
(* error is re-raised                                                      *)
C16_Witness ==
    /\ pc = "raised"
    /\ result = Raised(NetworkError)
    /\ Ops(trace) = <<"rate_limit", "get", "backoff", "rate_limit", "get", "backoff",
                      "rate_limit", "get">>
    /\ Waits(trace)[1].secs = 2
    /\ Waits(trace)[2].secs = 4

(* ----------------------------- genre IDs ------------------------------- *)
(* C17: every catalog genre name the mapper can return is a key of the     *)
(* genre ID table, so the ID looked up for a mapped genre is the ID of     *)
(* that genre, and the default ID 1 is used only for the fetcher's         *)
(* "Unknown" placeholder or for a mapped result of "Rock".                 *)
C17_MappedGenresHaveIds ==
    /\ (map_pc # "artist" /\ artist_genres # <<>>) => genre \in DOMAIN genre_id_map
    /\ map_pc = "done" =>
         /\ genre \in DOMAIN genre_id_map => genre_id = genre_id_map[genre]
         /\ genre_id = 1 => genre \in {"Unknown", "Rock"}

====
